---- MODULE Spec2Model ----
(***************************************************************************)
(* A model of httpsource.PairMux (src/httpsource/mux.go): one goroutine    *)
(* reads items from a source channel and writes each to every registered   *)
(* output channel with one of three writers (blocking, non-blocking,       *)
(* timeout), closes the outputs when the source is closed and drained, and *)
(* sends one value on the Finished channel.                                *)
(*                                                                         *)
(* The operations are the constructors, AddOutput, Start,                  *)
(* WaitUntilFinished and RunStep.  RunStep runs in the goroutine Start     *)
(* spawns (mux.go:62) and, being exported and guarded by nothing, in any   *)
(* goroutine that calls it directly (RunStepCall).  The package itself     *)
(* makes no direct call; LoopOnly says that none has been made, and the    *)
(* properties of the loop's deliveries are stated for that case.           *)
(*                                                                         *)
(* Go channels are modelled by what they do: a channel has a capacity, a   *)
(* buffer, a closed flag, and possibly a receiver parked on it; a send is  *)
(* possible when a receiver is parked or the buffer has room, and a send   *)
(* or a close on a closed channel panics.  Items are the numbers 1, 2, ... *)
(* in the order the producer pushes them (distinct pointers).              *)
(*                                                                         *)
(* m.lock: Start and the snapshot of RunStep hold the lock over a section  *)
(* that cannot block, so each is one step that needs the lock free;        *)
(* AddOutput takes it in one step and appends and releases in the next;    *)
(* shutdown holds it over several steps (the closes, the send).            *)
(***************************************************************************)
EXTENDS Naturals, Sequences, FiniteSets, TLC

\* ------------------------------------------------------------- bounds
MaxItems == 2       \* items the producer pushes before closing the source
MaxOutputs == 2     \* AddOutput calls
MaxCap == 1         \* largest buffer size given to AddOutput
MaxStarts == 2      \* Start calls
MaxCalls == 1       \* direct RunStep calls (each from a goroutine of its own)
NumWaiters == 2     \* WaitUntilFinished calls

\* make(chan bool, 1)
FinishedCap == 1

Waiters == 1..NumWaiters
\* The durations given to NewNonBlockingPairMux: zero and a positive one.
TimeoutChoices == {0, 1}

VARIABLES
    blocking,   \* m.blocking
    timeout,    \* m.timeout
    writer,     \* m.writer: "blocking", "nonblocking" or "timeout"
    Finished,   \* m.Finished: the number of values in its buffer
    outputs,    \* m.outputs: a sequence of [name, dst]
    lock,       \* m.lock: 0 when free, else the goroutine holding it
    adding,     \* the AddOutput call inside its locked section: <<>> or <<buf>>
    started,    \* m.started
    src,        \* m.src: [buf, closed, pushed]
    chans,      \* the channels AddOutput made: [cap, buf, closed, closes]
    cons,       \* the consumer of each such channel: [got, waiting, eos]
    reg,        \* history: [at, late, missed] of each AddOutput call
    loops,      \* the goroutines in RunStep or shutdown, those Start spawned and
                \* the direct callers of RunStep: [pc, item, outs, idx, timer, direct]
    abandoned,  \* the timer goroutines whose write won the select
    fired,      \* history: the sends on m.Finished
    wpc,        \* each WaitUntilFinished caller: "idle", "waiting", "returned"
    startCalls, \* the Start calls made
    panicked    \* a goroutine panicked (the program is dead)

vars == <<blocking, timeout, writer, Finished, outputs, lock, adding, started, src,
          chans, cons, reg, loops, abandoned, fired, wpc, startCalls, panicked>>

config == <<blocking, timeout, writer>>

\* ------------------------------------------------------------ helpers
Range(s) == {s[i] : i \in 1..Len(s)}

\* The items read from the source so far, in order.
NRead == src.pushed - Len(src.buf)
ReadSeq == [i \in 1..NRead |-> i]

\* What channel c has accepted so far: what its consumer got, then its buffer.
Delivered(c) == cons[c].got \o chans[c].buf

\* A send on c can proceed: a receiver is parked, or the buffer has room.
CanSend(c) == ~chans[c].closed /\ (cons[c].waiting \/ Len(chans[c].buf) < chans[c].cap)

\* The send of item on c: handed to the parked receiver, or buffered.
Deliver(c, item) ==
    IF cons[c].waiting
    THEN /\ cons' = [cons EXCEPT ![c].waiting = FALSE, ![c].got = Append(@, item)]
         /\ UNCHANGED chans
    ELSE /\ chans' = [chans EXCEPT ![c].buf = Append(@, item)]
         /\ UNCHANGED cons

\* ------------------------------------------------------- constructors
\* Mutant: NewNonBlockingPairMux makes the timeout writer for every duration.
NonBlockingWriterAlwaysTimed(t) == "timeout"

\* NewNonBlockingPairMux's choice of the writer.
NonBlockingWriterFor(t) == IF t # 0 THEN "timeout" ELSE "nonblocking"

InitCommon ==
    /\ Finished = 0
    /\ outputs = <<>>
    /\ lock = 0
    /\ adding = <<>>
    /\ started = FALSE
    /\ src = [buf |-> <<>>, closed |-> FALSE, pushed |-> 0]
    /\ chans = <<>>
    /\ cons = <<>>
    /\ reg = <<>>
    /\ loops = <<>>
    /\ abandoned = 0
    /\ fired = 0
    /\ wpc = [w \in Waiters |-> "idle"]
    /\ startCalls = 0
    /\ panicked = FALSE

NewBlockingPairMux ==
    /\ blocking = TRUE
    /\ timeout = 0
    /\ writer = "blocking"
    /\ InitCommon

NewNonBlockingPairMux ==
    /\ blocking = FALSE
    /\ timeout \in TimeoutChoices
    /\ writer = NonBlockingWriterFor(timeout)
    /\ InitCommon

Init == NewBlockingPairMux \/ NewNonBlockingPairMux

\* ----------------------------------------------------------- producer
Push ==
    /\ ~panicked
    /\ ~src.closed
    /\ src.pushed < MaxItems
    /\ src' = [src EXCEPT !.buf = Append(@, src.pushed + 1), !.pushed = @ + 1]
    /\ UNCHANGED <<config, adding, Finished, outputs, lock, started, chans, cons, reg,
                   loops, abandoned, fired, wpc, startCalls, panicked>>

CloseSource ==
    /\ ~panicked
    /\ ~src.closed
    /\ src' = [src EXCEPT !.closed = TRUE]
    /\ UNCHANGED <<config, adding, Finished, outputs, lock, started, chans, cons, reg,
                   loops, abandoned, fired, wpc, startCalls, panicked>>

\* ---------------------------------------------------------- AddOutput
\* Mutant: registration is refused once the loop is started.
AppendOutputUnlessStarted(o) == IF started THEN outputs ELSE Append(outputs, o)

\* m.outputs = append(m.outputs, output{name, c})
AppendOutput(o) == Append(outputs, o)

\* The goroutine id under which an AddOutput call holds m.lock.
AdderId == MaxStarts + MaxCalls + 1

\* c := make(chan *RequestResponsePair, buf); m.lock.Lock()
AddOutputLock(buf) ==
    /\ ~panicked
    /\ Len(chans) < MaxOutputs
    /\ lock = 0
    /\ lock' = AdderId
    /\ adding' = <<buf>>
    /\ UNCHANGED <<config, Finished, outputs, started, src, chans, cons, reg,
                   loops, abandoned, fired, wpc, startCalls, panicked>>

\* m.outputs = append(...); return c, with the deferred m.lock.Unlock().
\* The channel is known to its consumer from here on.
AddOutputAppend ==
    /\ ~panicked
    /\ adding # <<>>
    /\ LET c == Len(chans) + 1 IN
        /\ chans' = Append(chans, [cap |-> adding[1], buf |-> <<>>, closed |-> FALSE, closes |-> 0])
        /\ cons' = Append(cons, [got |-> <<>>, waiting |-> FALSE, eos |-> FALSE])
        /\ reg' = Append(reg, [at |-> NRead, late |-> fired > 0, missed |-> 0])
        /\ outputs' = AppendOutput([name |-> c, dst |-> c])
    /\ lock' = 0
    /\ adding' = <<>>
    /\ UNCHANGED <<config, Finished, started, src, loops, abandoned, fired,
                   wpc, startCalls, panicked>>

AddOutput ==
    \/ \E buf \in 0..MaxCap : AddOutputLock(buf)
    \/ AddOutputAppend

\* -------------------------------------------------------------- Start
\* The goroutines that run RunStep: at most one per Start call and one per
\* direct call.
Goroutines == 1..(MaxStarts + MaxCalls)

\* Start's goroutine at the top of its for loop, about to call RunStep.
NewLoop == [pc |-> "read", item |-> 0, outs |-> <<>>, idx |-> 0, timer |-> "none",
            direct |-> FALSE]

\* A goroutine entering RunStep by a direct call.
NewCall == [NewLoop EXCEPT !.direct = TRUE]

\* RunStep returns ok.  In Start's goroutine: if !m.RunStep() { m.shutdown();
\* return }, else the for loop calls RunStep again.  A direct caller gets ok
\* and nothing else happens.
Returns(r, ok) ==
    IF r.direct
    THEN [NewCall EXCEPT !.pc = IF ok THEN "returned true" ELSE "returned false"]
    ELSE IF ok THEN NewLoop ELSE [NewLoop EXCEPT !.pc = "shutdown"]

\* Mutant: Start does not look at m.started.
StartGuardOff == FALSE

\* if m.started { return }
StartGuard == started

Start ==
    /\ ~panicked
    /\ startCalls < MaxStarts
    /\ lock = 0
    /\ startCalls' = startCalls + 1
    /\ IF StartGuard
       THEN UNCHANGED <<loops, started>>
       ELSE /\ loops' = Append(loops, NewLoop)
            /\ started' = TRUE
    /\ UNCHANGED <<config, adding, Finished, outputs, lock, src, chans, cons, reg,
                   abandoned, fired, wpc, panicked>>

\* m.RunStep() called directly, from a goroutine of the caller's: RunStep
\* takes no lock to begin and does not look at m.started.
DirectCalls == Cardinality({l \in 1..Len(loops) : loops[l].direct})

RunStepCall ==
    /\ ~panicked
    /\ DirectCalls < MaxCalls
    /\ loops' = Append(loops, NewCall)
    /\ UNCHANGED <<config, adding, Finished, outputs, lock, started, src, chans, cons,
                   reg, abandoned, fired, wpc, startCalls, panicked>>

\* ------------------------------------------------------------ writers
\* The state of a goroutine after its write to outs[idx] ended: the next
\* output of the range loop, or RunStep returns true and the loop reads again.
NextIdx(i) == i + 1

\* What m.writer does before it first can block: the timeout writer makes
\* kill and starts its timer goroutine, which sleeps; the others do nothing.
TimerAtEntry == IF writer = "timeout" THEN "sleeping" ELSE "none"

Advance(r) ==
    IF NextIdx(r.idx) > Len(r.outs)
    THEN Returns(r, TRUE)
    ELSE [r EXCEPT !.idx = NextIdx(r.idx), !.timer = TimerAtEntry]

\* Mutant: the range loop writes to the first output of the snapshot each time.
TargetFirst(r) == r.outs[1].dst

\* The destination of the write the goroutine is at: output.dst of the range.
Target(r) == r.outs[r.idx].dst

\* A send on a closed channel panics.
SendPanic ==
    /\ panicked' = TRUE
    /\ UNCHANGED <<chans, cons, reg, loops, abandoned>>

\* History: a write to c ended without the item being sent.
Miss(c) == reg' = [reg EXCEPT ![c].missed = @ + 1]

\* Mutant: the blocking writer gives up on a destination that cannot take
\* the item.
BlockingOutputWriterDrops(l) ==
    LET r == loops[l]
        c == Target(r)
    IN  IF chans[c].closed
        THEN SendPanic
        ELSE /\ IF CanSend(c)
                THEN Deliver(c, r.item) /\ UNCHANGED reg
                ELSE UNCHANGED <<chans, cons>> /\ Miss(c)
             /\ loops' = [loops EXCEPT ![l] = Advance(r)]
             /\ UNCHANGED <<abandoned, panicked>>

\* o.dst <- item
BlockingOutputWriter(l) ==
    LET r == loops[l]
        c == Target(r)
    IN  IF chans[c].closed
        THEN SendPanic
        ELSE /\ CanSend(c)
             /\ Deliver(c, r.item)
             /\ loops' = [loops EXCEPT ![l] = Advance(r)]
             /\ UNCHANGED <<reg, abandoned, panicked>>

\* Mutant: the select has no default case.
NonBlockingOutputWriterNoDefault(l) ==
    LET r == loops[l]
        c == Target(r)
    IN  IF chans[c].closed
        THEN SendPanic
        ELSE /\ CanSend(c)
             /\ Deliver(c, r.item)
             /\ loops' = [loops EXCEPT ![l] = Advance(r)]
             /\ UNCHANGED <<reg, abandoned, panicked>>

\* Mutant: after a miss the item is not offered to the outputs that follow.
NonBlockingOutputWriterStopsAtMiss(l) ==
    LET r == loops[l]
        c == Target(r)
    IN  IF chans[c].closed
        THEN SendPanic
        ELSE /\ IF CanSend(c)
                THEN /\ Deliver(c, r.item)
                     /\ loops' = [loops EXCEPT ![l] = Advance(r)]
                     /\ UNCHANGED reg
                ELSE /\ UNCHANGED <<chans, cons>>
                     /\ loops' = [loops EXCEPT ![l] = Returns(r, TRUE)]
                     /\ Miss(c)
             /\ UNCHANGED <<abandoned, panicked>>

\* select { case o.dst <- item: default: }
NonBlockingOutputWriter(l) ==
    LET r == loops[l]
        c == Target(r)
    IN  IF chans[c].closed
        THEN SendPanic
        ELSE /\ IF CanSend(c)
                THEN Deliver(c, r.item) /\ UNCHANGED reg
                ELSE UNCHANGED <<chans, cons>> /\ Miss(c)
             /\ loops' = [loops EXCEPT ![l] = Advance(r)]
             /\ UNCHANGED <<abandoned, panicked>>

\* The timer goroutine of a write that ended by its send stays behind, asleep
\* and then at kill <- true: kill is unbuffered and its only receiver was the
\* select of that write, which has returned, so the send never completes.
Abandon == abandoned + 1

\* select { case o.dst <- item: ... }: the timer goroutine is left behind.
TimeoutWriterSend(l) ==
    LET r == loops[l]
        c == Target(r)
    IN  IF chans[c].closed
        THEN SendPanic
        ELSE /\ CanSend(c)
             /\ Deliver(c, r.item)
             /\ loops' = [loops EXCEPT ![l] = Advance(r)]
             /\ abandoned' = Abandon
             /\ UNCHANGED <<reg, panicked>>

\* select { ... case <-kill: }: the timer goroutine's send is received.
TimeoutWriterKill(l) ==
    /\ loops[l].timer = "sending"
    /\ loops' = [loops EXCEPT ![l] = Advance(loops[l])]
    /\ Miss(Target(loops[l]))
    /\ UNCHANGED <<chans, cons, abandoned, panicked>>

\* Mutant: the select has no kill case.
TimeoutOutputWriterNoKill(l) == TimeoutWriterSend(l)

\* makeTimeoutOutputWriter's writer at its select.
TimeoutOutputWriter(l) ==
    \/ TimeoutWriterSend(l)
    \/ TimeoutWriterKill(l)

\* time.Sleep(timeout) returns in the timer goroutine of l's write.
TimerExpire(l) ==
    /\ ~panicked
    /\ loops[l].pc = "write"
    /\ loops[l].timer = "sleeping"
    /\ loops' = [loops EXCEPT ![l].timer = "sending"]
    /\ UNCHANGED <<config, adding, Finished, outputs, lock, started, src, chans, cons,
                   reg, abandoned, fired, wpc, startCalls, panicked>>

\* ------------------------------------------------------------ RunStep
\* Mutant: an empty source is taken for a closed one.
SourceEndedWhenEmpty == src.buf = <<>>

\* item, ok := <-m.src with ok false: the source is closed and drained.
SourceEnded == src.closed /\ src.buf = <<>>

\* outputs := m.outputs[:]
SnapshotOutputs == outputs

\* Mutant: RunStep defers its Unlock, and holds the lock through the writes.
LockHeldAfterSnapshot(l) == l

\* m.lock.Unlock() before the range over the snapshot.
LockAfterSnapshot(l) == 0

RunStepRead(l) ==
    /\ ~panicked
    /\ loops[l].pc = "read"
    /\ src.buf # <<>>
    /\ src' = [src EXCEPT !.buf = Tail(@)]
    /\ loops' = [loops EXCEPT ![l].pc = "snapshot", ![l].item = Head(src.buf)]
    /\ UNCHANGED <<config, adding, Finished, outputs, lock, started, chans, cons, reg,
                   abandoned, fired, wpc, startCalls, panicked>>

RunStepEnd(l) ==
    /\ ~panicked
    /\ loops[l].pc = "read"
    /\ src.buf = <<>>
    /\ SourceEnded
    /\ loops' = [loops EXCEPT ![l] = Returns(loops[l], FALSE)]
    /\ UNCHANGED <<config, adding, Finished, outputs, lock, started, src, chans, cons,
                   reg, abandoned, fired, wpc, startCalls, panicked>>

RunStepSnapshot(l) ==
    /\ ~panicked
    /\ loops[l].pc = "snapshot"
    /\ lock = 0
    /\ LET r == [loops[l] EXCEPT !.outs = SnapshotOutputs, !.idx = 0, !.pc = "write"]
       IN  loops' = [loops EXCEPT ![l] = Advance(r)]
    /\ lock' = LockAfterSnapshot(l)
    /\ UNCHANGED <<config, adding, Finished, outputs, started, src, chans, cons,
                   reg, abandoned, fired, wpc, startCalls, panicked>>

RunStepWrite(l) ==
    /\ ~panicked
    /\ loops[l].pc = "write"
    /\ CASE writer = "blocking" -> BlockingOutputWriter(l)
         [] writer = "nonblocking" -> NonBlockingOutputWriter(l)
         [] writer = "timeout" -> TimeoutOutputWriter(l)
    /\ UNCHANGED <<config, adding, Finished, outputs, lock, started, src, fired, wpc,
                   startCalls>>

\* ----------------------------------------------------------- shutdown
\* logger.Printf("...", len(m.outputs)): the length is read before m.lock is
\* taken.  The value goes to the log only; it is not kept.
ShutdownLog(l) ==
    /\ ~panicked
    /\ loops[l].pc = "shutdown"
    /\ loops' = [loops EXCEPT ![l].pc = "lock"]
    /\ UNCHANGED <<config, adding, Finished, outputs, lock, started, src, chans,
                   cons, reg, abandoned, fired, wpc, startCalls, panicked>>

ShutdownLock(l) ==
    /\ ~panicked
    /\ loops[l].pc = "lock"
    /\ lock = 0
    /\ lock' = l
    /\ loops' = [loops EXCEPT ![l].pc = "closing", ![l].idx = 1]
    /\ UNCHANGED <<config, adding, Finished, outputs, started, src, chans, cons, reg,
                   abandoned, fired, wpc, startCalls, panicked>>

\* Mutant: the range over m.outputs stops one output short.
CloseDoneEarly(l) == loops[l].idx >= Len(outputs)

\* for _, output := range m.outputs: the range is over.
CloseDone(l) == loops[l].idx > Len(outputs)

\* close(output.dst); a close of a closed channel panics.
ShutdownClose(l) ==
    /\ ~panicked
    /\ loops[l].pc = "closing"
    /\ ~CloseDone(l)
    /\ LET c == outputs[loops[l].idx].dst IN
        /\ chans' = [chans EXCEPT ![c].closed = TRUE, ![c].closes = @ + 1]
        /\ panicked' = chans[c].closed
    /\ loops' = [loops EXCEPT ![l].idx = @ + 1]
    /\ UNCHANGED <<config, adding, Finished, outputs, lock, started, src, cons, reg,
                   abandoned, fired, wpc, startCalls>>

\* m.Finished <- true, then the deferred m.lock.Unlock()
ShutdownSignal(l) ==
    /\ ~panicked
    /\ loops[l].pc = "closing"
    /\ CloseDone(l)
    /\ Finished < FinishedCap
    /\ Finished' = Finished + 1
    /\ fired' = fired + 1
    /\ lock' = 0
    /\ loops' = [loops EXCEPT ![l].pc = "done", ![l].idx = 0]
    /\ UNCHANGED <<config, adding, outputs, started, src, chans, cons, reg, abandoned,
                   wpc, startCalls, panicked>>

LoopStep(l) ==
    \/ RunStepRead(l)
    \/ RunStepEnd(l)
    \/ RunStepSnapshot(l)
    \/ RunStepWrite(l)
    \/ ShutdownLog(l)
    \/ ShutdownLock(l)
    \/ ShutdownClose(l)
    \/ ShutdownSignal(l)

\* ---------------------------------------------------------- consumers
\* <-c with an item in the buffer.
ConsumerRecv(c) ==
    /\ ~panicked
    /\ chans[c].buf # <<>>
    /\ cons' = [cons EXCEPT ![c].got = Append(@, Head(chans[c].buf))]
    /\ chans' = [chans EXCEPT ![c].buf = Tail(@)]
    /\ UNCHANGED <<config, adding, Finished, outputs, lock, started, src, reg, loops,
                   abandoned, fired, wpc, startCalls, panicked>>

\* <-c on an empty open channel: the receiver parks.  Only a receiver parked
\* on an unbuffered channel is modelled: on a buffered one the buffer is empty
\* while it is parked, so a send succeeds with or without it.
ConsumerWait(c) ==
    /\ ~panicked
    /\ chans[c].cap = 0
    /\ chans[c].buf = <<>>
    /\ ~chans[c].closed
    /\ ~cons[c].waiting
    /\ cons' = [cons EXCEPT ![c].waiting = TRUE]
    /\ UNCHANGED <<config, adding, Finished, outputs, lock, started, src, chans, reg,
                   loops, abandoned, fired, wpc, startCalls, panicked>>

\* <-c on an empty closed channel: end of stream.
ConsumerEOS(c) ==
    /\ ~panicked
    /\ chans[c].buf = <<>>
    /\ chans[c].closed
    /\ ~cons[c].eos
    /\ cons' = [cons EXCEPT ![c].eos = TRUE, ![c].waiting = FALSE]
    /\ UNCHANGED <<config, adding, Finished, outputs, lock, started, src, chans, reg,
                   loops, abandoned, fired, wpc, startCalls, panicked>>

Consumer(c) == ConsumerRecv(c) \/ ConsumerWait(c) \/ ConsumerEOS(c)

\* -------------------------------------------------- WaitUntilFinished
\* The callers are interchangeable: they call in the order of their numbers.
WaitCall(w) ==
    /\ ~panicked
    /\ wpc[w] = "idle"
    /\ \A v \in Waiters : v < w => wpc[v] # "idle"
    /\ wpc' = [wpc EXCEPT ![w] = "waiting"]
    /\ UNCHANGED <<config, adding, Finished, outputs, lock, started, src, chans, cons,
                   reg, loops, abandoned, fired, startCalls, panicked>>

\* <-m.Finished; of the callers parked on the channel the first gets the
\* value (Go queues receivers in arrival order).
WaitReturn(w) ==
    /\ ~panicked
    /\ wpc[w] = "waiting"
    /\ \A v \in Waiters : v < w => wpc[v] # "waiting"
    /\ Finished > 0
    /\ Finished' = Finished - 1
    /\ wpc' = [wpc EXCEPT ![w] = "returned"]
    /\ UNCHANGED <<config, adding, outputs, lock, started, src, chans, cons, reg, loops,
                   abandoned, fired, startCalls, panicked>>

\* --------------------------------------------------------------- Next
Loops == \E l \in 1..Len(loops) : LoopStep(l)
Timers == \E l \in 1..Len(loops) : TimerExpire(l)
Consumers == \E c \in 1..Len(chans) : Consumer(c)

\* A panic ends the program: every action needs ~panicked.
Next ==
    \/ Push
    \/ CloseSource
    \/ AddOutput
    \/ Start
    \/ RunStepCall
    \/ Loops
    \/ Timers
    \/ Consumers
    \/ \E w \in Waiters : WaitCall(w)
    \/ \E w \in Waiters : WaitReturn(w)

Spec == Init /\ [][Next]_vars

\* The Go scheduler runs every goroutine that can run: the loop, a RunStep
\* call that has begun and the timer goroutines take their steps, and an
\* AddOutput call that holds the lock
\* goes on to release it.  Consumers and waiters are left free to stop.
LoopFairness ==
    /\ WF_vars(AddOutputAppend)
    /\ \A l \in Goroutines : WF_vars(l <= Len(loops) /\ LoopStep(l))
    /\ \A l \in Goroutines : WF_vars(l <= Len(loops) /\ TimerExpire(l))

\* Every consumer keeps receiving from its channel, and a waiter that can
\* return does.
ConsumerFairness ==
    /\ \A c \in 1..MaxOutputs : WF_vars(c <= Len(chans) /\ Consumer(c))
    /\ \A w \in Waiters : WF_vars(WaitReturn(w))

LoopFairSpec == Spec /\ LoopFairness
FairSpec == Spec /\ LoopFairness /\ ConsumerFairness

\* ------------------------------------------------------------- claims
Chans == 1..MaxOutputs
Registered(c) == c <= Len(chans)

\* All the items pushed to the source, in order.
AllPushed == [i \in 1..src.pushed |-> i]

\* RunStep has been called by the loop only (mux.go:62), the one caller the
\* package has: no goroutine has called the exported method directly.
LoopOnly == DirectCalls = 0

\* The steps a goroutine in RunStep or shutdown can still take without
\* reading another item: the return or the shutdown that ends it, the
\* snapshot, and for each output left in its range the end of the write and
\* the expiry of its timer.
EndWork(r) == IF r.direct THEN 1 ELSE 4 + MaxOutputs
ItemWork == 1 + 2 * MaxOutputs
Work(r) ==
    CASE r.pc = "read" -> EndWork(r)
      [] r.pc = "snapshot" -> EndWork(r) + ItemWork
      [] r.pc = "write" -> EndWork(r) + 2 * (Len(r.outs) - r.idx + 1)
                              - (IF r.timer = "sending" THEN 1 ELSE 0)
      [] r.pc = "shutdown" -> 3 + MaxOutputs
      [] r.pc = "lock" -> 2 + MaxOutputs
      [] r.pc = "closing" -> 2 + Len(outputs) - r.idx
      [] OTHER -> 0

\* The steps the consumer of a channel can still take: a receive for each
\* item it may yet be sent, one park between two of them, the end of stream.
ConsumerWork(k) ==
    3 * (MaxItems - Len(k.got)) + (IF k.waiting THEN 0 ELSE 1) + (IF k.eos THEN 0 ELSE 2)

RECURSIVE SumOver(_, _)
SumOver(f, n) == IF n = 0 THEN 0 ELSE f[n] + SumOver(f, n - 1)

\* A bound on the steps the program and its callers can still take.
Variant ==
    (MaxItems - src.pushed) * (2 + ItemWork)
    + Len(src.buf) * (1 + ItemWork)
    + (IF src.closed THEN 0 ELSE 1)
    + (MaxOutputs - Len(chans)) * (3 * MaxItems + 5)
    + (IF adding = <<>> THEN 1 ELSE 0)
    + SumOver([c \in 1..Len(cons) |-> ConsumerWork(cons[c])], Len(cons))
    + (MaxStarts - startCalls) * (5 + MaxOutputs)
    + (MaxCalls - DirectCalls) * 2
    + SumOver([l \in 1..Len(loops) |-> Work(loops[l])], Len(loops))
    + SumOver([w \in Waiters |->
                 CASE wpc[w] = "idle" -> 2 [] wpc[w] = "waiting" -> 1 [] OTHER -> 0],
              NumWaiters)
    + (IF panicked THEN 0 ELSE 1)

\* With the loop the only caller of RunStep, every step uses up some of
\* Variant, which is never negative: such a run has finitely many steps and
\* ends in a state it stays in for ever.
Terminates ==
    /\ [](LoopOnly => Variant \in Nat)
    /\ [][LoopOnly' => Variant' < Variant]_vars

\* No step of the goroutines LoopFairness schedules is enabled; a run under
\* LoopFairSpec ends in such a state.
LoopQuiet == ~ENABLED AddOutputAppend /\ ~ENABLED Loops /\ ~ENABLED Timers

\* Nor of the consumers and waiters ConsumerFairness schedules; a run under
\* FairSpec ends in such a state.
FairQuiet ==
    /\ LoopQuiet
    /\ ~ENABLED Consumers
    /\ \A w \in Waiters : ~ENABLED WaitReturn(w)

\* C1: with the loop the only caller of RunStep, under the blocking writer,
\* what an output registered before the first item was read has accepted is
\* at all times the first items pushed, in order; the run ends (Terminates);
\* and where it ends with the loop and the consumers scheduled (FairQuiet),
\* the source closed and the loop started, the consumer of every such output
\* has received exactly the items pushed, in order.
C1_BlockingDeliversAll ==
    /\ Terminates
    /\ [](\A c \in Chans :
            (LoopOnly /\ writer = "blocking" /\ Registered(c) /\ reg[c].at = 0)
            => /\ \A i \in 1..Len(Delivered(c)) : Delivered(c)[i] = i
               /\ (src.closed /\ started /\ FairQuiet) => cons[c].got = AllPushed)

C1_Witness ==
    /\ LoopOnly
    /\ FairQuiet
    /\ writer = "blocking"
    /\ src.closed
    /\ src.pushed = MaxItems
    /\ Len(chans) = 2
    /\ \A c \in 1..2 : reg[c].at = 0 /\ cons[c].got = AllPushed /\ cons[c].eos
    /\ chans[1].cap = 0

\* C2: once the source is closed and the loop is started, every caller of
\* WaitUntilFinished that is waiting eventually returns.
C2_AllWaitersReturn ==
    \A w \in Waiters :
        (src.closed /\ started /\ wpc[w] = "waiting") ~> (wpc[w] = "returned")

\* C3: no output channel is closed a second time, and one is closed only when
\* the source is closed and drained and the loop, having seen that, is in
\* shutdown or past it.
C3_ClosedOnceAfterSourceEnds ==
    \A c \in Chans :
        Registered(c) =>
            /\ chans[c].closes <= 1
            /\ chans[c].closed =>
                  /\ SourceEnded
                  /\ \E l \in 1..Len(loops) : loops[l].pc \in {"closing", "done"}

C3_Witness ==
    /\ Len(chans) = 2
    /\ \A c \in 1..2 : chans[c].closed /\ chans[c].closes = 1
    /\ src.pushed = MaxItems
    /\ startCalls = 2

\* Every output registered before the completion signal was sent is closed.
AllEarlierClosed ==
    \A c \in Chans : (Registered(c) /\ ~reg[c].late) => chans[c].closed

\* C4: the completion signal is sent at most once; once it is sent every
\* output registered before it is closed; and a waiter has returned only
\* after it was sent.
C4_FiredOnceAfterAllClosed ==
    /\ fired <= 1
    /\ fired >= 1 => AllEarlierClosed
    /\ \A w \in Waiters : wpc[w] = "returned" => (fired >= 1 /\ AllEarlierClosed)

C4_Witness ==
    /\ fired = 1
    /\ Len(chans) = 2
    /\ ~reg[1].late /\ chans[1].closed
    /\ reg[2].late
    /\ \E w \in Waiters : wpc[w] = "returned"

IsStrictlyIncreasing(s) == \A i, j \in 1..Len(s) : i < j => s[i] < s[j]

NoDuplicates(s) == \A i, j \in 1..Len(s) : i < j => s[i] # s[j]

\* The goroutines Start spawned.
LoopGoroutines == {l \in 1..Len(loops) : ~loops[l].direct}

\* The goroutine has an item in hand: read, and not yet through its writes.
Holding(l) == loops[l].pc \in {"snapshot", "write"}

\* C5: whatever the number of Start calls, there is at most one loop
\* goroutine, every item in hand is an item read from the source and no two
\* goroutines have the same one (an item is read once), no output accepted
\* an item twice, and no output was closed twice.
C5_StartIdempotent ==
    /\ Cardinality(LoopGoroutines) <= 1
    /\ \A l \in 1..Len(loops) :
        Holding(l) =>
            /\ loops[l].item \in 1..NRead
            /\ \A k \in 1..Len(loops) :
                  (k # l /\ Holding(k)) => loops[k].item # loops[l].item
    /\ \A c \in Chans :
        Registered(c) =>
            /\ NoDuplicates(Delivered(c))
            /\ chans[c].closes <= 1

C5_Witness ==
    /\ startCalls = MaxStarts
    /\ started
    /\ Len(loops) = 1
    /\ loops[1].pc = "done"
    /\ Len(chans) >= 1
    /\ Delivered(1) = AllPushed
    /\ src.pushed = MaxItems
    /\ chans[1].closes = 1

\* Goroutine l is alive and inside m.writer.
AtWrite(l) == ~panicked /\ l <= Len(loops) /\ loops[l].pc = "write"

\* C6: under the non-blocking writer, a write at a destination that cannot
\* take the item now is a step the loop can take (it does not suspend), the
\* step leaves every channel and consumer as they were and moves to the next
\* output or item (the item is dropped and not retried); and an unbuffered
\* output with no receiver parked on it accepts nothing.
C6_NonBlockingDrops ==
    /\ [](\A l \in Goroutines :
            (writer = "nonblocking" /\ AtWrite(l)) => ENABLED RunStepWrite(l))
    /\ [][\A l \in Goroutines :
            (/\ writer = "nonblocking"
             /\ AtWrite(l)
             /\ ~CanSend(Target(loops[l]))
             /\ loops'[l] # loops[l])
            => (/\ chans' = chans
                /\ cons' = cons
                /\ loops'[l] = Advance(loops[l]))]_vars
    /\ [][\A c \in Chans :
            (/\ writer = "nonblocking"
             /\ Registered(c)
             /\ chans[c].cap = 0
             /\ ~cons[c].waiting)
            => Delivered(c)' = Delivered(c)]_vars

\* Two items were read and dropped at an unbuffered output nobody received
\* from; the output was closed and its consumer then saw the end of stream.
C6_Witness ==
    /\ writer = "nonblocking"
    /\ Len(chans) = 1
    /\ chans[1].cap = 0
    /\ reg[1].at = 0
    /\ NRead = 2
    /\ cons[1].got = <<>>
    /\ cons[1].eos
    /\ fired = 1

\* C7: with the loop the only caller of RunStep, under the non-blocking and
\* the timeout writers and with no assumption on the consumers: a write
\* attempt always has a step to take, of the loop (the send, the default
\* case, the kill case) or of its timer (the expiry); the run ends
\* (Terminates); and where it ends with the loop and the timers scheduled
\* (LoopQuiet) and the source closed, the loop is done and the completion
\* signal was sent.
C7_NoWriteBlocksForever ==
    /\ Terminates
    /\ [](\A l \in Goroutines :
            (LoopOnly /\ writer # "blocking" /\ AtWrite(l))
            => (ENABLED LoopStep(l) \/ ENABLED TimerExpire(l)))
    /\ [](\A l \in Goroutines :
            (LoopOnly /\ writer # "blocking" /\ src.closed /\ l \in LoopGoroutines
                /\ LoopQuiet)
            => (loops[l].pc = "done" /\ fired = 1))

\* The loop finished although nothing was ever delivered to a full output.
C7_Witness ==
    /\ LoopOnly
    /\ LoopQuiet
    /\ src.closed
    /\ writer = "timeout"
    /\ Len(loops) = 1
    /\ loops[1].pc = "done"
    /\ Len(chans) = 2
    /\ \A c \in 1..2 : reg[c].at = 0 /\ Delivered(c) = <<>>
    /\ NRead = MaxItems

\* C8: with the loop the only caller of RunStep, what an output has accepted
\* is a subsequence of what was read from the source: only items read, in
\* increasing (source) order, none twice.
C8_DeliveredIsSubsequence ==
    LoopOnly =>
        \A c \in Chans :
            Registered(c) =>
                /\ \A i \in 1..Len(Delivered(c)) : Delivered(c)[i] \in 1..NRead
                /\ IsStrictlyIncreasing(Delivered(c))

\* An output that missed the first item and accepted the second.
C8_Witness ==
    /\ LoopOnly
    /\ writer # "blocking"
    /\ Len(chans) = 2
    /\ reg[1].at = 0
    /\ Delivered(1) = <<2>>
    /\ Delivered(2) = <<1, 2>>

\* The write of item i to c is still to come: a goroutine has i in hand and
\* has not taken its snapshot, or has c ahead in its snapshot.
Pending(c, i) ==
    \E l \in 1..Len(loops) :
        /\ loops[l].item = i
        /\ \/ loops[l].pc = "snapshot"
           \/ /\ loops[l].pc = "write"
              /\ \E j \in loops[l].idx..Len(loops[l].outs) : loops[l].outs[j].dst = c

\* C9: with the loop the only caller of RunStep, under the blocking writer,
\* an output has accepted every item that was read after its registration
\* completed and that the loop is done writing, in source order.
C9_RegisteredMidRunGetsLaterItems ==
    (LoopOnly /\ writer = "blocking") =>
        \A c \in Chans :
            Registered(c) =>
                /\ IsStrictlyIncreasing(Delivered(c))
                /\ \A i \in (reg[c].at + 1)..NRead :
                      ~Pending(c, i) => i \in Range(Delivered(c))

\* An output registered after the first item was read, which missed it and
\* received the second.
C9_Witness ==
    /\ LoopOnly
    /\ writer = "blocking"
    /\ Len(chans) = 2
    /\ reg[2].at = 1
    /\ cons[2].got = <<2>>
    /\ cons[1].got = <<1, 2>>

\* C10: an output registered after the completion signal was sent is closed,
\* so that its consumer, which keeps receiving, sees the end of stream.
C10_LateOutputIsClosed ==
    \A c \in Chans :
        (Registered(c) /\ reg[c].late) ~> (Registered(c) /\ cons[c].eos)

\* C11: with the loop the only caller of RunStep:
\* no goroutine panicked; a write the loop is at has an open destination;
\* a loop that is not at a write has no timer goroutine of its own left (the
\* timed write ended, by the send or by the timer); and once some destination
\* is closed the loop is closing or done, so no write is to come.
C11_NoWriteOnClosed ==
    LoopOnly =>
        /\ ~panicked
        /\ \A l \in 1..Len(loops) :
            /\ loops[l].pc = "write" => ~chans[Target(loops[l])].closed
            /\ loops[l].pc # "write" => loops[l].timer = "none"
            /\ (\E c \in 1..Len(chans) : chans[c].closed)
                  => loops[l].pc \in {"closing", "done"}

\* A timed write was abandoned by its timer, and its destination was closed
\* afterwards.
C11_Witness ==
    /\ writer = "timeout"
    /\ Len(chans) = 1
    /\ reg[1].at = 0
    /\ NRead = MaxItems
    /\ Delivered(1) = <<>>
    /\ chans[1].closed
    /\ ~panicked
    /\ LoopOnly

\* The loop (Start's goroutine) is at a blocking write whose destination
\* cannot take the item.
Stalled(l) ==
    /\ writer = "blocking"
    /\ AtWrite(l)
    /\ ~loops[l].direct
    /\ ~chans[Target(loops[l])].closed
    /\ ~CanSend(Target(loops[l]))

\* The outputs of the snapshot the loop has already written its item to.
WrittenTo(l) == {loops[l].outs[j].dst : j \in 1..(loops[l].idx - 1)}

IsPrefix(s, t) == Len(s) <= Len(t) /\ \A i \in 1..Len(s) : s[i] = t[i]

\* C12: with the loop the only caller of RunStep, under the blocking writer,
\* a loop at a write to a full destination can take no step; its item is in no output other than those written before
\* it; as long as that destination's consumer does nothing, the loop stays
\* where it is, nothing more is read from the source, and no shutdown step is
\* taken; and what a queue accepted is never lost (it only grows).
C12_BlockingStallsOnFullOutput ==
    /\ [](\A l \in Goroutines :
            (LoopOnly /\ Stalled(l)) =>
                /\ ~ENABLED LoopStep(l)
                /\ lock # l
                /\ \A c \in 1..Len(chans) :
                      c \notin WrittenTo(l) => loops[l].item \notin Range(Delivered(c)))
    /\ [][\A l \in Goroutines :
            (LoopOnly' /\ Stalled(l) /\ cons'[Target(loops[l])] = cons[Target(loops[l])])
            => (/\ loops' = loops
                /\ NRead' = NRead
                /\ fired' = fired
                /\ \A c \in 1..Len(chans) : chans'[c].closed = chans[c].closed)]_vars
    /\ [][\A c \in 1..Len(chans) : IsPrefix(Delivered(c), Delivered(c)')]_vars

\* The first output's buffer is full with item 1, the loop is suspended on
\* writing item 2 to it, and the second output has only item 1.
C12_Witness ==
    /\ LoopOnly
    /\ Len(loops) = 1
    /\ Stalled(1)
    /\ Len(loops[1].outs) = 2
    /\ loops[1].idx = 1
    /\ loops[1].item = 2
    /\ chans[1].cap = 1
    /\ chans[1].buf = <<1>>
    /\ Delivered(2) = <<1>>
    /\ src.closed

\* The items read after c's registration completed whose writes are over.
HandledSince(c) ==
    {i \in (reg[c].at + 1)..NRead : ~Pending(c, i)}

\* Every item read after c's registration whose writes are over was accepted
\* by c or missed at c itself, whatever happened at other outputs or at
\* earlier items; and when c is closed no such item is still to be written.
MissAccounting(c) ==
    /\ Len(Delivered(c)) + reg[c].missed >= Cardinality(HandledSince(c))
    /\ reg[c].missed = 0 => HandledSince(c) \subseteq Range(Delivered(c))
    /\ chans[c].closed => HandledSince(c) = (reg[c].at + 1)..NRead

\* This step ends the write goroutine l is at (by the send, the default case
\* or the kill case).
WriteEnds(l) ==
    /\ AtWrite(l)
    /\ loops'[l].pc # "write" \/ loops'[l].idx # loops[l].idx

\* This step puts the item goroutine l has in hand into the destination of
\* its write.
Accepted(l) ==
    \E c \in Chans :
        /\ c = Target(loops[l])
        /\ cons'[c].got \o chans'[c].buf = Append(Delivered(c), loops[l].item)

\* C13: with the loop the only caller of RunStep, under the non-blocking and
\* the timeout writers a miss is local to one output and one item: every
\* item read after an output's registration is attempted on it
\* (MissAccounting), and an attempt on a destination that can take the item
\* delivers it, so that an output that always has capacity receives every
\* such item.
C13_MissIsLocal ==
    /\ []((LoopOnly /\ writer # "blocking")
            => \A c \in Chans : Registered(c) => MissAccounting(c))
    /\ [][\A l \in Goroutines :
            (LoopOnly' /\ writer # "blocking" /\ WriteEnds(l) /\ CanSend(Target(loops[l])))
            => Accepted(l)]_vars

\* C13 as amended: the same, but an attempt on a destination that can take
\* the item delivers it unless its timer has already expired; then the send
\* and the kill case are both ready and the select may take either.
C13_MissIsLocalBarExpiredTimer ==
    /\ []((LoopOnly /\ writer # "blocking")
            => \A c \in Chans : Registered(c) => MissAccounting(c))
    /\ [][\A l \in Goroutines :
            (/\ LoopOnly'
             /\ writer # "blocking"
             /\ WriteEnds(l)
             /\ CanSend(Target(loops[l]))
             /\ loops[l].timer # "sending")
            => Accepted(l)]_vars

\* Both items were missed at the first output and accepted by the second,
\* which had room for them.
C13_Witness ==
    /\ LoopOnly
    /\ writer # "blocking"
    /\ Len(chans) = 2
    /\ reg[1].at = 0 /\ reg[2].at = 0
    /\ reg[1].missed = 2
    /\ Delivered(1) = <<>>
    /\ reg[2].missed = 0
    /\ Delivered(2) = <<1, 2>>

\* C14: with the loop the only caller of RunStep:
\* a loop goroutine holds the lock only inside shutdown, where its next
\* step (a close, or the send on m.Finished, whose buffer is then empty) can
\* be taken; it does not hold it while it reads the source, writes to a
\* destination or is suspended on either; an AddOutput call that holds the
\* lock can go on; with the loop stalled on a blocking write and the lock free,
\* Start and AddOutput can be called; and a held lock always leaves a scheduled
\* goroutine a step and the run ends (Terminates), so that with the
\* goroutines scheduled the lock, once taken, is released.
C14_LockNotHeldWhileSuspended ==
    /\ [](\A l \in Goroutines :
            (LoopOnly /\ l <= Len(loops)) =>
                /\ lock = l => (loops[l].pc = "closing" /\ ENABLED LoopStep(l))
                /\ loops[l].pc # "closing" => lock # l
                /\ (Stalled(l) /\ lock = 0) =>
                      /\ startCalls < MaxStarts => ENABLED Start
                      /\ Len(chans) < MaxOutputs => ENABLED AddOutput)
    /\ []((LoopOnly /\ lock = AdderId) => ENABLED AddOutputAppend)
    /\ []((LoopOnly /\ lock # 0) => ~LoopQuiet)
    /\ Terminates

\* The second output was registered after the loop took the snapshot for the
\* item it is now suspended on.
C14_Witness ==
    /\ LoopOnly
    /\ Len(loops) = 1
    /\ Stalled(1)
    /\ Len(loops[1].outs) = 1
    /\ Len(chans) = 2
    /\ reg[2].at = NRead
    /\ lock = 0
    /\ startCalls = MaxStarts

\* The timer goroutines that have not terminated: those of the writes in
\* progress and those left behind.
TimersAlive ==
    Cardinality({l \in 1..Len(loops) : loops[l].timer # "none"})
        + abandoned

\* C15: every timer goroutine eventually terminates: whenever some are alive,
\* later none is.
C15_TimerHelpersTerminate == (TimersAlive > 0) ~> (TimersAlive = 0)

\* C16: a mux made by NewNonBlockingPairMux with a zero timeout has the
\* non-blocking writer, never has a timer goroutine, and each of its write
\* steps is a step of nonBlockingOutputWriter: the item is sent when the
\* destination can take it now and missed otherwise.
C16_ZeroTimeoutIsNonBlocking ==
    /\ []((~blocking /\ timeout = 0) => (writer = "nonblocking" /\ TimersAlive = 0))
    /\ [][\A l \in Goroutines :
            (~blocking /\ timeout = 0 /\ AtWrite(l) /\ loops'[l] # loops[l])
            => (/\ NonBlockingOutputWriter(l)
                /\ \E c \in Chans :
                     /\ c = Target(loops[l])
                     /\ IF CanSend(c)
                        THEN /\ cons'[c].got \o chans'[c].buf
                                  = Append(Delivered(c), loops[l].item)
                             /\ reg'[c].missed = reg[c].missed
                        ELSE /\ cons'[c].got \o chans'[c].buf = Delivered(c)
                             /\ reg'[c].missed = reg[c].missed + 1)]_vars

\* A zero-timeout mux finished after one item was missed and one delivered
\* at the same output.
C16_Witness ==
    /\ ~blocking
    /\ timeout = 0
    /\ Len(chans) >= 1
    /\ reg[1].at = 0
    /\ reg[1].missed = 1
    /\ Len(Delivered(1)) = 1
    /\ fired = 1

\* A goroutine is at an access to m.outputs without holding m.lock: loop l is
\* at shutdown's log line, which reads len(m.outputs) before m.lock.Lock().
\* (RunStep's snapshot, shutdown's range and AddOutput's append are made by
\* the holder of the lock.)
UnlockedAccess(l) == l <= Len(loops) /\ loops[l].pc = "shutdown" /\ lock # l

\* AddOutput is inside its locked section, at the append to m.outputs.
Appending == adding # <<>> /\ lock = AdderId

\* C17: every access to m.outputs is made under m.lock, so that no state has
\* AddOutput at its append while a loop goroutine is at an access made
\* without the lock; and every snapshot a loop holds is a prefix, in
\* insertion order, of m.outputs.
C17_OutputsAccessedUnderLock ==
    /\ \A l \in Goroutines : ~(Appending /\ UnlockedAccess(l))
    /\ \A l \in 1..Len(loops) : IsPrefix(loops[l].outs, outputs)

\* The part of C17 that the code keeps: m.outputs only grows by appending and
\* every snapshot is a prefix of it.
C17_SnapshotIsPrefix ==
    /\ [](\A l \in 1..Len(loops) : IsPrefix(loops[l].outs, outputs))
    /\ [][IsPrefix(outputs, outputs')]_vars

====
